---- MODULE Spec2Model ----
(***************************************************************************)
(* Model of the execution-cache mutating admission webhook                 *)
(* (backend/src/cache/server/mutation.go): the cache-key derivation, the   *)
(* pod eligibility filter and MutatePodIfCached.                           *)
(*                                                                         *)
(* Representation of Go values:                                            *)
(*  - a map-key or command-token string that the code searches with        *)
(*    strings.Contains / strings.HasSuffix is a sequence of segments;      *)
(*  - an annotation value is a text record [kind, lit, fields]: kind is    *)
(*    the lexical class of the text as encoding/json sees it ("text" is    *)
(*    not JSON at all, "object" is a JSON object whose members are kept in *)
(*    the order and spelling in which they are written);                   *)
(*  - a Go map or slice is a record with an isNil flag, since the code     *)
(*    distinguishes nil from empty.                                        *)
(***************************************************************************)
EXTENDS Naturals, Integers, Sequences, FiniteSets, TLC

VARIABLES req, pc, pod, patches, err, calls, executionHashKey, cachedExecution,
          lookupErr, arg, res

vars == <<req, pc, pod, patches, err, calls, executionHashKey, cachedExecution,
          lookupErr, arg, res>>

(* ------------------------------ bounds -------------------------------- *)

\* longest container list of a pod
MaxContainers == 2

\* longest init-container list of a pod
MaxInitContainers == 1

\* most members written in one JSON object of a template
MaxFields == 2

(* ----------------------------- constants ------------------------------ *)

KFPAnnotation == <<"pipelines.kubeflow.org">>

ArgoWorkflowNodeName == <<"workflows.argoproj.io", "/node-name">>

ArgoWorkflowTemplate == <<"workflows.argoproj.io", "/template">>

ExecutionKey == <<"pipelines.kubeflow.org", "/execution_cache_key">>

CacheIDLabelKey == <<"pipelines.kubeflow.org", "/cache_id">>

AnnotationPath == "/metadata/annotations"

LabelPath == "/metadata/labels"

ArgoWorkflowOutputs == <<"workflows.argoproj.io", "/outputs">>

TFXPodSuffix == <<"tfx/orchestration/kubeflow/", "container_entrypoint.py">>

ArchiveLocationKey == "archiveLocation"

podResource == [Group |-> "", Version |-> "v1", Resource |-> "pods"]

OperationTypeAdd == "add"

(* --------------------------- strings, maps ---------------------------- *)

\* strings.Contains(s, substr)
Contains(s, substr) ==
    \E i \in 0..(Len(s) - Len(substr)) : SubSeq(s, i + 1, i + Len(substr)) = substr

\* strings.HasSuffix(s, suffix)
HasSuffix(s, suffix) ==
    /\ Len(s) >= Len(suffix)
    /\ SubSeq(s, Len(s) - Len(suffix) + 1, Len(s)) = suffix

EmptyFcn == [k \in {} |-> 0]

\* the nil map
NilMap == [isNil |-> TRUE, m |-> EmptyFcn]

\* a non-nil map holding f
MapOf(f) == [isNil |-> FALSE, m |-> f]

\* len(mp): 0 for the nil map
MapLen(mp) == Cardinality(DOMAIN mp.m)

\* _, exists := mp[k]: reading the nil map is allowed
MapHas(mp, k) == k \in DOMAIN mp.m

\* mp[k] = v on a non-nil map (on the nil map the assignment panics)
MapSet(mp, k, v) ==
    [isNil |-> FALSE,
     m |-> [x \in DOMAIN mp.m \cup {k} |-> IF x = k THEN v ELSE mp.m[x]]]

\* delete(mp, k)
MapDelete(mp, k) ==
    [isNil |-> mp.isNil, m |-> [x \in DOMAIN mp.m \ {k} |-> mp.m[x]]]

(* ------------------------------- texts -------------------------------- *)

\* a text that is not JSON
Text(s) == [kind |-> "text", lit |-> s, fields |-> <<>>]

\* the JSON texts  null,  [..],  "..",  and a number literal
NullText == [kind |-> "null", lit |-> "null", fields |-> <<>>]

ArrayText == [kind |-> "array", lit |-> "[1]", fields |-> <<>>]

StringText == [kind |-> "string", lit |-> "\"s\"", fields |-> <<>>]

NumberText(l) == [kind |-> "number", lit |-> l, fields |-> <<>>]

\* a JSON object text: its members <<key, value text>> in written order
ObjectText(fs) == [kind |-> "object", lit |-> "", fields |-> fs]

(* --------------------------- encoding/json ---------------------------- *)

\* strconv.ParseFloat of a number literal: a number decoded into an
\* interface{} is a float64, whatever its spelling
ParseFloat(l) ==
    CASE l = "1" -> 1
      [] l = "1.0" -> 1
      [] l = "1e0" -> 1
      [] l = "2" -> 2
      [] l = "2.0" -> 2

\* the shortest spelling of a float64, as json.Marshal writes it
FormatFloat(n) ==
    CASE n = 1 -> "1"
      [] n = 2 -> "2"

RECURSIVE decodeValue(_), decodeObject(_)

\* a JSON value decoded into an interface{}: float64 or map[string]interface{}
decodeValue(v) ==
    IF v.kind = "number"
    THEN [t |-> "float64", n |-> ParseFloat(v.lit), m |-> EmptyFcn]
    ELSE [t |-> "map", n |-> 0, m |-> decodeObject(v.fields)]

\* the members of an object text stored into a map one after the other: a key
\* written twice keeps its last value
decodeObject(fs) ==
    IF fs = <<>>
    THEN EmptyFcn
    ELSE LET init == decodeObject(SubSeq(fs, 1, Len(fs) - 1))
             last == fs[Len(fs)]
         IN [k \in DOMAIN init \cup {last[1]} |->
                IF k = last[1] THEN decodeValue(last[2]) ELSE init[k]]

\* json.Unmarshal(b, &templateMap), templateMap a nil map[string]interface{}:
\* a syntax error for a text that is not JSON, a type error for an array, a
\* string or a number, and for null NO error (the map is left nil)
Unmarshal(b) ==
    CASE b.kind = "object" -> [err |-> "nil", v |-> MapOf(decodeObject(b.fields))]
      [] b.kind = "null" -> [err |-> "nil", v |-> NilMap]
      [] b.kind \in {"array", "string", "number"} ->
            [err |-> "json: cannot unmarshal into Go value of type map[string]interface {}",
             v |-> NilMap]
      [] OTHER -> [err |-> "invalid character", v |-> NilMap]

\* every object key of the model in the order sort.Strings gives
SortedKeys == <<"archiveLocation", "container", "inputs">>

RECURSIVE encodeValue(_), encodeMembers(_, _)

\* json.Marshal of a decoded value, as a sequence of tokens
encodeValue(x) ==
    IF x.t = "float64"
    THEN <<FormatFloat(x.n)>>
    ELSE <<"{">> \o encodeMembers(x.m, 1) \o <<"}">>

\* the members of a map from the i-th sorted key on: json.Marshal writes a map
\* with its keys sorted
encodeMembers(f, i) ==
    IF i > Len(SortedKeys)
    THEN <<>>
    ELSE LET k == SortedKeys[i]
             rest == encodeMembers(f, i + 1)
         IN IF k \in DOMAIN f
            THEN <<k, ":">> \o encodeValue(f[k])
                     \o (IF rest = <<>> THEN <<>> ELSE <<",">> \o rest)
            ELSE rest

\* json.Marshal(templateMap): null for the nil map
Marshal(mp) ==
    IF mp.isNil THEN <<"null">> ELSE <<"{">> \o encodeMembers(mp.m, 1) \o <<"}">>

\* hex.EncodeToString(sha256(b)), the digest taken as injective
Sha256Hex(b) == [kind |-> "hex", lit |-> "sha256", fields |-> b]

(* ----------------------- generateCacheKeyFromTemplate ----------------- *)

\* the delete of lines 155-159 left out
generateCacheKeyKeepsArchive(template) ==
    LET u == Unmarshal(template)
    IN IF u.err # "nil"
       THEN [key |-> Text(""), err |-> u.err]
       ELSE [key |-> Sha256Hex(Marshal(u.v)), err |-> "nil"]

generateCacheKeyFromTemplate(template) ==
    LET u == Unmarshal(template)
    IN IF u.err # "nil"
       THEN [key |-> Text(""), err |-> u.err]
       ELSE LET templateMap == IF MapHas(u.v, ArchiveLocationKey)
                               THEN MapDelete(u.v, ArchiveLocationKey)
                               ELSE u.v
            IN [key |-> Sha256Hex(Marshal(templateMap)), err |-> "nil"]

(* -------------------------------- pods -------------------------------- *)

\* the nil slice, and a non-nil slice holding the sequence s
NilSlice == [isNil |-> TRUE, elems |-> <<>>]

SliceOf(s) == [isNil |-> FALSE, elems |-> s]

\* the i-th digit character
DigitChars == <<"0", "1", "2", "3", "4", "5", "6", "7", "8", "9">>

RECURSIVE formatUint(_)

formatUint(n) ==
    IF n < 10 THEN DigitChars[n + 1] ELSE formatUint(n \div 10) \o DigitChars[(n % 10) + 1]

\* strconv.FormatInt(i, 10)
FormatInt(i) == IF i < 0 THEN "-" \o formatUint(0 - i) ELSE formatUint(i)

\* isTFXPod with the test of the FIRST command token instead of the last
isTFXPodFirstToken(containers) ==
    LET mainContainers == SelectSeq(containers.elems, LAMBDA c : c.Name # "" /\ c.Name = "main")
    IN IF Len(mainContainers) # 1
       THEN FALSE
       ELSE LET mainContainer == mainContainers[1]
            IN /\ Len(mainContainer.Command) # 0
               /\ HasSuffix(mainContainer.Command[1], TFXPodSuffix)

isTFXPod(containers) ==
    LET mainContainers == SelectSeq(containers.elems, LAMBDA c : c.Name # "" /\ c.Name = "main")
    IN IF Len(mainContainers) # 1
       THEN FALSE
       ELSE LET mainContainer == mainContainers[1]
            IN /\ Len(mainContainer.Command) # 0
               /\ HasSuffix(mainContainer.Command[Len(mainContainer.Command)], TFXPodSuffix)

isKFPArgoPod(annotations) ==
    IF ~MapHas(annotations, ArgoWorkflowNodeName)
    THEN FALSE
    ELSE \E k \in DOMAIN annotations.m : Contains(k, KFPAnnotation)

\* isValidPod without the call of isKFPArgoPod
isValidPodNoKFPCheck(p) ==
    LET annotations == p.Annotations
        containers == p.Containers
    IN IF annotations.isNil \/ MapLen(annotations) = 0
       THEN FALSE
       ELSE IF ~containers.isNil /\ Len(containers.elems) # 0 /\ isTFXPod(containers)
       THEN FALSE
       ELSE TRUE

isValidPod(p) ==
    LET annotations == p.Annotations
        containers == p.Containers
    IN IF annotations.isNil \/ MapLen(annotations) = 0
       THEN FALSE
       ELSE IF ~isKFPArgoPod(annotations)
       THEN FALSE
       ELSE IF ~containers.isNil /\ Len(containers.elems) # 0 /\ isTFXPod(containers)
       THEN FALSE
       ELSE TRUE

\* corev1.Pod{}: the zero pod
ZeroPod ==
    [Annotations |-> NilMap, Labels |-> NilMap,
     Containers |-> NilSlice, InitContainers |-> NilSlice]

\* Decode with its error dropped
DecodeIgnoresError(raw) ==
    [err |-> "nil", pod |-> IF raw.wellFormed THEN raw.object ELSE ZeroPod]

\* universalDeserializer.Decode(raw, nil, &pod): raw bytes that are no pod
\* object give an error, a field absent from the object stays nil
Decode(raw) ==
    IF raw.wellFormed
    THEN [err |-> "nil", pod |-> raw.object]
    ELSE [err |-> "couldn't get version/kind; json parse error", pod |-> ZeroPod]

\* the placeholder container of a cache hit
dummyContainer == [Name |-> "dummy", Image |-> "alpine", Command |-> <<<<"true">>>>]

\* a patchOperation; Value.ptr names the Go object a map value refers to
patchOperation(op, path, ptr, v) ==
    [Op |-> op, Path |-> path, Value |-> [ptr |-> ptr, v |-> v]]

\* the nil *model.ExecutionCache
NilExecution == [isNil |-> TRUE, ID |-> 0, ExecutionOutput |-> Text("")]

(* ------------------------------- inputs ------------------------------- *)

\* sequences over S of length at most n
SeqsUpTo(S, n) == UNION {[1..i -> S] : i \in 0..n}

\* a pipelines annotation other than the ones the handler writes
KFPComponentKey == <<"pipelines.kubeflow.org", "/component_ref">>

\* an annotation whose key holds the pipelines marker after a prefix
PrefixedKFPKey == <<"alpha.", "pipelines.kubeflow.org", "/sdk">>

\* an annotation and a label unrelated to pipelines
OtherKey == <<"app">>

\* the template annotation values of the requests: not JSON, JSON that is no
\* object, and objects (two that differ in archiveLocation only, one that
\* differs in another member)
RequestTemplates ==
    {Text("not json"), NullText, ArrayText, StringText, NumberText("1"),
     ObjectText(<<<<"archiveLocation", NumberText("1")>>, <<"container", NumberText("1")>>>>),
     ObjectText(<<<<"container", NumberText("1.0")>>, <<"archiveLocation", NumberText("2")>>>>),
     ObjectText(<<<<"container", NumberText("2")>>>>)}

\* the value an incoming pod carries under annotation key k
StockValue(k) ==
    CASE k = ExecutionKey -> Text("stale key")
      [] k = ArgoWorkflowOutputs -> Text("stale outputs")
      [] k = ArgoWorkflowNodeName -> Text("n1")
      [] OTHER -> Text("y")

\* annotation maps over the keys K, the template drawn from T
AnnotationMaps(K, T) ==
    {NilMap} \cup
    {MapOf([k \in S |-> IF k = ArgoWorkflowTemplate THEN t ELSE StockValue(k)]) :
        S \in SUBSET K, t \in T}

RequestAnnotations ==
    AnnotationMaps({ArgoWorkflowNodeName, ArgoWorkflowTemplate, ExecutionKey,
                    ArgoWorkflowOutputs, KFPComponentKey}, RequestTemplates)

\* label maps: absent from the pod object, empty, and with a stale cache id
RequestLabels ==
    {NilMap} \cup
    {MapOf([k \in S |-> IF k = CacheIDLabelKey THEN "7" ELSE "v"]) :
        S \in SUBSET {CacheIDLabelKey, OtherKey}}

TFXCommand == <<<<"python">>, <<"/", "tfx/orchestration/kubeflow/", "container_entrypoint.py">>>>

TFXMain == [Name |-> "main", Image |-> "tfx", Command |-> TFXCommand]

PlainMain == [Name |-> "main", Image |-> "busybox", Command |-> <<<<"echo">>>>]

Sidecar == [Name |-> "wait", Image |-> "argoexec", Command |-> TFXCommand]

\* "main" containers on the edges of the TFX test: no command, the entrypoint
\* not last, the entrypoint path continued, the entrypoint as the only token
EdgeMains ==
    {[Name |-> "main", Image |-> "busybox", Command |-> <<>>],
     [Name |-> "main", Image |-> "tfx", Command |-> TFXCommand \o <<<<"--flag">>>>],
     [Name |-> "main", Image |-> "tfx",
      Command |-> <<<<"tfx/orchestration/kubeflow/", "container_entrypoint.py", ".bak">>>>],
     [Name |-> "main", Image |-> "tfx", Command |-> <<TFXPodSuffix, <<"echo">>>>],
     [Name |-> "", Image |-> "tfx", Command |-> TFXCommand]}

\* container slices over the kinds C: nil, or a list of at most MaxContainers
ContainerSlices(C) == {NilSlice} \cup {SliceOf(s) : s \in SeqsUpTo(C, MaxContainers)}

InitContainer == [Name |-> "init", Image |-> "busybox", Command |-> <<<<"true">>>>]

InitContainerSlices ==
    {NilSlice} \cup {SliceOf(s) : s \in SeqsUpTo({InitContainer}, MaxInitContainers)}

RequestPods ==
    [Annotations : RequestAnnotations, Labels : RequestLabels,
     Containers : ContainerSlices({TFXMain, PlainMain, Sidecar}),
     InitContainers : InitContainerSlices]

\* raw bytes that decode into no pod
BadRaw == [wellFormed |-> FALSE, object |-> ZeroPod]

RawOf(p) == [wellFormed |-> TRUE, object |-> p]

configmapResource == [Group |-> "", Version |-> "v1", Resource |-> "configmaps"]

\* the admission requests: pod requests with every payload, and requests for
\* another resource with a payload that decodes and one that does not
Requests ==
    {[Resource |-> podResource, Raw |-> r] :
        r \in {BadRaw} \cup {RawOf(p) : p \in RequestPods}}
    \cup
    {[Resource |-> configmapResource, Raw |-> r] :
        r \in {BadRaw} \cup {RawOf(p) : p \in {q \in RequestPods :
                 /\ q.Labels = NilMap
                 /\ q.Containers = NilSlice
                 /\ q.InitContainers = NilSlice}}}

\* what the cache store may hand back: a record or nil, with or without an error
ExecutionRecords ==
    {[isNil |-> FALSE, ID |-> 42, ExecutionOutput |-> Text("{\"artifacts\":42}")],
     [isNil |-> FALSE, ID |-> 0, ExecutionOutput |-> Text("")],
     [isNil |-> FALSE, ID |-> 0 - 105, ExecutionOutput |-> Text("{}")]}

LookupErrors == {"nil", "failed to get execution cache"}

(* ----------------------------- the handler ---------------------------- *)

Init ==
    /\ req \in Requests
    /\ pc = "start"
    /\ pod = ZeroPod
    /\ patches = <<>>
    /\ err = "nil"
    /\ calls = <<>>
    /\ executionHashKey = Text("")
    /\ cachedExecution = NilExecution
    /\ lookupErr = "nil"
    /\ arg = "none"
    /\ res = "none"

\* the resource compared by its version alone
versionMismatch(r) == r.Resource.Version # podResource.Version

\* req.Resource != podResource: group, version and resource are compared
resourceMismatch(r) == r.Resource # podResource

\* return p, e
Return(p, e) ==
    /\ pc' = "done"
    /\ patches' = p
    /\ err' = e

\* MutatePodIfCached from its entry to the call of GetExecutionCache (line 97),
\* to a return before it, or to the panic of a write into the nil label map
MutatePodIfCached ==
    /\ pc = "start"
    /\ UNCHANGED <<req, cachedExecution, lookupErr, arg, res>>
    /\ IF resourceMismatch(req)
       THEN /\ Return(<<>>, "nil")
            /\ UNCHANGED <<pod, calls, executionHashKey>>
       ELSE LET d == Decode(req.Raw)
            IN IF d.err # "nil"
               THEN /\ Return(<<>>, "could not deserialize pod object")
                    /\ calls' = Append(calls, <<"Decode">>)
                    /\ UNCHANGED <<pod, executionHashKey>>
               ELSE IF ~isValidPod(d.pod)
               THEN /\ Return(<<>>, "nil")
                    /\ calls' = Append(calls, <<"Decode">>)
                    /\ pod' = d.pod
                    /\ UNCHANGED executionHashKey
               ELSE IF ~MapHas(d.pod.Annotations, ArgoWorkflowTemplate)
               THEN /\ Return(<<>>, "nil")
                    /\ calls' = Append(calls, <<"Decode">>)
                    /\ pod' = d.pod
                    /\ UNCHANGED executionHashKey
               ELSE LET k == generateCacheKeyFromTemplate(
                                 d.pod.Annotations.m[ArgoWorkflowTemplate])
                    IN IF k.err # "nil"
                       THEN /\ Return(<<>>, "nil")
                            /\ calls' = Append(calls, <<"Decode">>)
                            /\ pod' = d.pod
                            /\ executionHashKey' = k.key
                       ELSE LET annotated ==
                                    [d.pod EXCEPT !.Annotations =
                                        MapSet(@, ExecutionKey, k.key)]
                            IN /\ executionHashKey' = k.key
                               /\ IF d.pod.Labels.isNil
                                  THEN /\ pc' = "panic"
                                       /\ pod' = annotated
                                       /\ calls' = Append(calls, <<"Decode">>)
                                       /\ UNCHANGED <<patches, err>>
                                  ELSE /\ pc' = "lookup"
                                       /\ pod' = [annotated EXCEPT !.Labels =
                                                     MapSet(@, CacheIDLabelKey, "")]
                                       /\ calls' = calls \o
                                              <<<<"Decode">>, <<"GetExecutionCache", k.key>>>>
                                       /\ UNCHANGED <<patches, err>>

\* hitPatches without the replace of the container list
hitPatchesNoReplace(cached, p) ==
    IF cached.isNil
    THEN <<>>
    ELSE IF ~p.InitContainers.isNil \/ Len(p.InitContainers.elems) # 0
         THEN <<patchOperation("remove", "/spec/initContainers", "nil", <<>>)>>
         ELSE <<>>

\* hitPatches with the remove appended before the replace
hitPatchesRemoveFirst(cached, p) ==
    IF cached.isNil
    THEN <<>>
    ELSE (IF ~p.InitContainers.isNil \/ Len(p.InitContainers.elems) # 0
          THEN <<patchOperation("remove", "/spec/initContainers", "nil", <<>>)>>
          ELSE <<>>)
         \o <<patchOperation("replace", "/spec/containers", "new", <<dummyContainer>>)>>

\* the patches of lines 102-125 for the record the lookup returned
hitPatches(cached, p) ==
    IF cached.isNil
    THEN <<>>
    ELSE <<patchOperation("replace", "/spec/containers", "new", <<dummyContainer>>)>>
         \o (IF ~p.InitContainers.isNil \/ Len(p.InitContainers.elems) # 0
             THEN <<patchOperation("remove", "/spec/initContainers", "nil", <<>>)>>
             ELSE <<>>)

\* hitPod that also stores the placeholder list into the pod itself
hitPodReplacesContainers(cached, p) ==
    IF cached.isNil
    THEN p
    ELSE [p EXCEPT !.Annotations = MapSet(@, ArgoWorkflowOutputs, cached.ExecutionOutput),
                   !.Labels = MapSet(@, CacheIDLabelKey, FormatInt(cached.ID)),
                   !.Containers = SliceOf(<<dummyContainer>>)]

\* the pod after lines 102-105
hitPod(cached, p) ==
    IF cached.isNil
    THEN p
    ELSE [p EXCEPT !.Annotations = MapSet(@, ArgoWorkflowOutputs, cached.ExecutionOutput),
                   !.Labels = MapSet(@, CacheIDLabelKey, FormatInt(cached.ID))]

\* GetExecutionCacheReturns with the lookup called once more after an error
GetExecutionCacheReturnsRetries(cached, e) ==
    /\ pc = "lookup"
    /\ IF e # "nil" /\ Len(calls) < 3
       THEN /\ calls' = Append(calls, <<"GetExecutionCache", executionHashKey>>)
            /\ UNCHANGED <<pc, patches, err, pod, cachedExecution, lookupErr>>
       ELSE /\ cachedExecution' = cached
            /\ lookupErr' = e
            /\ pod' = hitPod(cached, pod)
            /\ Return(hitPatches(cached, pod)
                        \o <<patchOperation(OperationTypeAdd, AnnotationPath,
                                            "pod.ObjectMeta.Annotations", pod'.Annotations.m),
                             patchOperation(OperationTypeAdd, LabelPath,
                                            "pod.ObjectMeta.Labels", pod'.Labels.m)>>,
                      "nil")
            /\ UNCHANGED calls
    /\ UNCHANGED <<req, executionHashKey, arg, res>>

\* GetExecutionCache returns (cached, e) and MutatePodIfCached runs to its end
GetExecutionCacheReturns(cached, e) ==
    /\ pc = "lookup"
    /\ cachedExecution' = cached
    /\ lookupErr' = e
    /\ pod' = hitPod(cached, pod)
    /\ Return(hitPatches(cached, pod)
                \o <<patchOperation(OperationTypeAdd, AnnotationPath,
                                    "pod.ObjectMeta.Annotations", pod'.Annotations.m),
                     patchOperation(OperationTypeAdd, LabelPath,
                                    "pod.ObjectMeta.Labels", pod'.Labels.m)>>,
              "nil")
    /\ UNCHANGED <<req, calls, executionHashKey, arg, res>>

Lookup == \E cached \in {NilExecution} \cup ExecutionRecords, e \in LookupErrors :
              GetExecutionCacheReturns(cached, e)

Next == MutatePodIfCached \/ Lookup

Spec == Init /\ [][Next]_vars

(* ------------------- the key deriver on its own ----------------------- *)

\* a nested object written in two orders, and one that differs from them in
\* its own archiveLocation member
NestedA == ObjectText(<<<<"archiveLocation", NumberText("1")>>, <<"container", NumberText("1")>>>>)

NestedB == ObjectText(<<<<"container", NumberText("1e0")>>, <<"archiveLocation", NumberText("1")>>>>)

NestedC == ObjectText(<<<<"archiveLocation", NumberText("2")>>, <<"container", NumberText("1")>>>>)

\* the members a template object is written from
TemplateMembers ==
    {<<"archiveLocation", NumberText("1")>>, <<"archiveLocation", NestedC>>,
     <<"container", NumberText("1")>>, <<"container", NumberText("1.0")>>,
     <<"container", NumberText("2")>>,
     <<"inputs", NestedA>>, <<"inputs", NestedB>>, <<"inputs", NestedC>>}

\* the JSON-object templates: at most MaxFields members, any order, repeats allowed
ObjectTemplates == {ObjectText(fs) : fs \in SeqsUpTo(TemplateMembers, MaxFields)}

\* the handler's variables, unused by the specifications of the pure functions
HandlerIdle ==
    /\ req = [Resource |-> podResource, Raw |-> BadRaw]
    /\ pod = ZeroPod
    /\ patches = <<>>
    /\ err = "nil"
    /\ calls = <<>>
    /\ executionHashKey = Text("")
    /\ cachedExecution = NilExecution
    /\ lookupErr = "nil"

InitKey ==
    /\ HandlerIdle
    /\ pc = "start"
    /\ arg \in ObjectTemplates \X ObjectTemplates
    /\ res = "none"

\* generateCacheKeyFromTemplate applied to both templates
DeriveKeys ==
    /\ pc = "start"
    /\ pc' = "done"
    /\ res' = <<generateCacheKeyFromTemplate(arg[1]), generateCacheKeyFromTemplate(arg[2])>>
    /\ UNCHANGED <<req, pod, patches, err, calls, executionHashKey, cachedExecution,
                   lookupErr, arg>>

NextKey == DeriveKeys

SpecKey == InitKey /\ [][NextKey]_vars

(* --------------------- the filter on its own -------------------------- *)

FilterPods ==
    [Annotations : AnnotationMaps({ArgoWorkflowNodeName, ArgoWorkflowTemplate, ExecutionKey,
                                   KFPComponentKey, PrefixedKFPKey, OtherKey},
                                  {Text("not json")}),
     Labels : {NilMap},
     Containers : ContainerSlices({TFXMain, PlainMain, Sidecar} \cup EdgeMains),
     InitContainers : {NilSlice}]

InitValid ==
    /\ HandlerIdle
    /\ pc = "start"
    /\ arg \in FilterPods
    /\ res = "none"

\* isValidPod applied to the pod
ApplyIsValidPod ==
    /\ pc = "start"
    /\ pc' = "done"
    /\ res' = isValidPod(arg)
    /\ UNCHANGED <<req, pod, patches, err, calls, executionHashKey, cachedExecution,
                   lookupErr, arg>>

NextValid == ApplyIsValidPod

SpecValid == InitValid /\ [][NextValid]_vars

(* ------------------------------ properties ---------------------------- *)

\* the pod object of the request, as written by the client
IncomingPod == req.Raw.object

IsPodRequest == req.Resource = podResource

\* the request is for a pod and its object decodes
Decodes == IsPodRequest /\ req.Raw.wellFormed

\* the call has ended: by a return or by a panic
Ended == pc \in {"done", "panic"}

\* GetExecutionCache was called
LookedUp == \E i \in 1..Len(calls) : calls[i][1] = "GetExecutionCache"

\* the returned operations that target path
OpsAt(path) == SelectSeq(patches, LAMBDA o : o.Path = path)

IncomingTemplate == IncomingPod.Annotations.m[ArgoWorkflowTemplate]

\* the pod passes the filter and carries a template annotation
EligibleWithTemplate ==
    /\ Decodes
    /\ isValidPod(IncomingPod)
    /\ MapHas(IncomingPod.Annotations, ArgoWorkflowTemplate)

\* ... and the template is a JSON object
EligibleWithKey == EligibleWithTemplate /\ IncomingTemplate.kind = "object"

\* the lookup handed back a record
Hit == LookedUp /\ ~cachedExecution.isNil

\* C1: every request whose pod object decodes ends with a patch list and a
\* nil error, whatever the annotations, labels (present or absent),
\* containers, template and lookup result; the handler never ends otherwise.
C1_DecodedRequestReturnsNilError ==
    (Decodes /\ Ended) => (pc = "done" /\ err = "nil")

\* C2: after a lookup that yields a record the returned list holds exactly one
\* operation at /spec/containers, a replace whose value is the one-element
\* list of the placeholder container; after a lookup that yields no record it
\* holds no operation at /spec/containers.
C2_ContainerReplaceIffRecord ==
    (pc = "done" /\ LookedUp) =>
        /\ EligibleWithTemplate
        /\ IF ~cachedExecution.isNil
           THEN /\ Len(OpsAt("/spec/containers")) = 1
                /\ OpsAt("/spec/containers")[1].Op = "replace"
                /\ Len(OpsAt("/spec/containers")[1].Value.v) = 1
                /\ OpsAt("/spec/containers")[1].Value.v[1].Name = "dummy"
                /\ OpsAt("/spec/containers")[1].Value.v[1].Image = "alpine"
                /\ OpsAt("/spec/containers")[1].Value.v[1].Command = <<<<"true">>>>
           ELSE Len(OpsAt("/spec/containers")) = 0

\* a hit on a pod of two containers: the list is replaced by the placeholder
C2_Witness ==
    /\ pc = "done"
    /\ Hit
    /\ Len(IncomingPod.Containers.elems) = 2
    /\ Len(OpsAt("/spec/containers")) = 1

\* C3: whenever GetExecutionCache returns an error, whatever record comes with
\* it, the outcome is the cache-miss outcome: no container replace, no
\* init-container remove, no outputs annotation written, cache-id label "",
\* nil error.
C3_LookupErrorIsMiss ==
    (pc = "done" /\ LookedUp /\ lookupErr # "nil") =>
        /\ err = "nil"
        /\ Len(OpsAt("/spec/containers")) = 0
        /\ Len(OpsAt("/spec/initContainers")) = 0
        /\ Len(OpsAt(AnnotationPath)) = 1
        /\ LET a == OpsAt(AnnotationPath)[1].Value.v
           IN IF MapHas(IncomingPod.Annotations, ArgoWorkflowOutputs)
              THEN a[ArgoWorkflowOutputs] = IncomingPod.Annotations.m[ArgoWorkflowOutputs]
              ELSE ArgoWorkflowOutputs \notin DOMAIN a
        /\ Len(OpsAt(LabelPath)) = 1
        /\ OpsAt(LabelPath)[1].Value.v[CacheIDLabelKey] = ""

\* C4: a pod request whose object does not decode returns a non-nil error and
\* no patch list, with no cache lookup; and a non-nil error is returned in no
\* other situation.
C4_DecodeFailureIsTheOnlyError ==
    /\ (IsPodRequest /\ ~req.Raw.wellFormed /\ pc # "start") =>
           (pc = "done" /\ err # "nil" /\ patches = <<>> /\ ~LookedUp)
    /\ (err # "nil") => (pc = "done" /\ IsPodRequest /\ ~req.Raw.wellFormed)

\* the decode was tried, failed, and the error came back
C4_Witness ==
    /\ pc = "done"
    /\ err # "nil"
    /\ calls = <<<<"Decode">>>>
    /\ patches = <<>>

\* C5: a request for a resource other than pods returns an empty patch list
\* and a nil error whatever its payload, without decoding it and without
\* querying the cache store.
C5_OtherResourcePassesThrough ==
    (~IsPodRequest /\ pc # "start") =>
        (pc = "done" /\ patches = <<>> /\ err = "nil" /\ calls = <<>> /\ pod = ZeroPod)

\* a configmaps request with a payload that would decode into an eligible pod
C5_Witness ==
    /\ pc = "done"
    /\ req.Resource.Resource = "configmaps"
    /\ req.Raw.wellFormed
    /\ isValidPod(IncomingPod)
    /\ MapHas(IncomingPod.Annotations, ArgoWorkflowTemplate)
    /\ patches = <<>>

\* C6: for every eligible pod with a derivable fingerprint the returned list
\* holds an add at /metadata/annotations whose value keeps every incoming
\* annotation, maps the cache-key annotation to the fingerprint, and maps the
\* outputs annotation to the record's output exactly on a hit.
C6_AnnotationsPatch ==
    (EligibleWithKey /\ Ended) =>
        /\ pc = "done"
        /\ Len(OpsAt(AnnotationPath)) = 1
        /\ OpsAt(AnnotationPath)[1].Op = "add"
        /\ LET a == OpsAt(AnnotationPath)[1].Value.v
               in == IncomingPod.Annotations.m
           IN /\ \A k \in DOMAIN in \ {ExecutionKey, ArgoWorkflowOutputs} :
                     k \in DOMAIN a /\ a[k] = in[k]
              /\ ExecutionKey \in DOMAIN a
              /\ a[ExecutionKey] = generateCacheKeyFromTemplate(IncomingTemplate).key
              /\ IF Hit
                 THEN /\ ArgoWorkflowOutputs \in DOMAIN a
                      /\ a[ArgoWorkflowOutputs] = cachedExecution.ExecutionOutput
                 ELSE IF ArgoWorkflowOutputs \in DOMAIN in
                      THEN a[ArgoWorkflowOutputs] = in[ArgoWorkflowOutputs]
                      ELSE ArgoWorkflowOutputs \notin DOMAIN a

\* C7: for every eligible pod with a derivable fingerprint the returned list
\* holds an add at /metadata/labels whose value keeps every incoming label and
\* maps the cache-id label to "" on a miss and to the decimal string of the
\* record's identifier on a hit.
C7_LabelsPatch ==
    (EligibleWithKey /\ Ended) =>
        /\ pc = "done"
        /\ Len(OpsAt(LabelPath)) = 1
        /\ OpsAt(LabelPath)[1].Op = "add"
        /\ LET l == OpsAt(LabelPath)[1].Value.v
               in == IncomingPod.Labels.m
           IN /\ \A k \in DOMAIN in \ {CacheIDLabelKey} : k \in DOMAIN l /\ l[k] = in[k]
              /\ CacheIDLabelKey \in DOMAIN l
              /\ l[CacheIDLabelKey] =
                    IF Hit
                    THEN CASE cachedExecution.ID = 42 -> "42"
                           [] cachedExecution.ID = 0 -> "0"
                           [] cachedExecution.ID = 0 - 105 -> "-105"
                    ELSE ""

\* the "main" containers of pod p
MainIndexes(p) ==
    {i \in 1..Len(p.Containers.elems) : p.Containers.elems[i].Name = "main"}

\* exactly one "main" container, with a command whose last token ends with
\* the entrypoint suffix
ExcludedFramework(p) ==
    \E i \in MainIndexes(p) :
        /\ MainIndexes(p) = {i}
        /\ LET c == p.Containers.elems[i].Command
           IN c # <<>> /\ HasSuffix(c[Len(c)], TFXPodSuffix)

HasNodeName(p) == ArgoWorkflowNodeName \in DOMAIN p.Annotations.m

HasMarker(p) == \E k \in DOMAIN p.Annotations.m : Contains(k, KFPAnnotation)

\* C8: isValidPod is total and true exactly when the annotations hold the
\* node-name key, some annotation key holds the pipelines marker, and the pod
\* is not one with exactly one "main" container whose last command token ends
\* with the entrypoint suffix; no annotations is never eligible; zero, two or
\* more "main" containers, or no containers, do not exclude.
C8_IsValidPodCharacterised ==
    (pc = "done") =>
        /\ res \in BOOLEAN
        /\ res <=> (HasNodeName(arg) /\ HasMarker(arg) /\ ~ExcludedFramework(arg))
        /\ (DOMAIN arg.Annotations.m = {}) => ~res
        /\ (Cardinality(MainIndexes(arg)) # 1) => (res <=> (HasNodeName(arg) /\ HasMarker(arg)))

\* a pipelines pod with a sidecar rejected for its single TFX "main" container
C8_Witness ==
    /\ pc = "done"
    /\ res = FALSE
    /\ HasNodeName(arg)
    /\ HasMarker(arg)
    /\ Len(arg.Containers.elems) = 2
    /\ ExcludedFramework(arg)

RECURSIVE structureOf(_)

\* the key-value structure a value text denotes: a number, or the set of the
\* members of an object, each key with its last written value
structureOf(v) ==
    IF v.kind = "number"
    THEN [t |-> "number", n |-> ParseFloat(v.lit), members |-> {}]
    ELSE [t |-> "object", n |-> 0,
          members |-> {<<v.fields[i][1], structureOf(v.fields[i][2])>> :
                          i \in {j \in 1..Len(v.fields) :
                                    \A h \in (j + 1)..Len(v.fields) :
                                        v.fields[h][1] # v.fields[j][1]}}]

\* the structure of a template without its top-level archiveLocation member
ReducedStructure(t) == {mb \in structureOf(t).members : mb[1] # "archiveLocation"}

\* C9: two JSON-object templates get the same fingerprint exactly when they
\* are equal as key-value structures once the top-level archiveLocation
\* member is removed.
C9_SameKeyIffSameReducedStructure ==
    (pc = "done") =>
        /\ res[1].err = "nil"
        /\ res[2].err = "nil"
        /\ (res[1].key = res[2].key) <=> (ReducedStructure(arg[1]) = ReducedStructure(arg[2]))

\* templates written in different orders with different archive locations
\* get one fingerprint
C9_Witness ==
    /\ pc = "done"
    /\ arg[1] = ObjectText(<<<<"archiveLocation", NumberText("1")>>, <<"inputs", NestedA>>>>)
    /\ arg[2] = ObjectText(<<<<"inputs", NestedB>>, <<"archiveLocation", NestedC>>>>)
    /\ res[1].key = res[2].key

\* C10: for an eligible pod whose template annotation is not a JSON object
\* (not JSON, or null, an array, a number, a string) the call ends with no
\* patches and a nil error, no key derived and no cache lookup made.
C10_NonObjectTemplateNoLookup ==
    (EligibleWithTemplate /\ IncomingTemplate.kind # "object" /\ pc # "start") =>
        /\ pc = "done"
        /\ patches = <<>>
        /\ err = "nil"
        /\ ~LookedUp
        /\ executionHashKey = Text("")

\* the filter as the specification words it
Eligible(p) == HasNodeName(p) /\ HasMarker(p) /\ ~ExcludedFramework(p)

\* C11: a decoded pod that is not eligible, and an eligible pod without the
\* workflow-template annotation, end with an empty patch list and a nil
\* error; no key is derived and the cache store is not queried.
C11_IneligibleOrNoTemplatePassesThrough ==
    (Decodes /\ pc # "start"
        /\ (~Eligible(IncomingPod) \/ ~MapHas(IncomingPod.Annotations, ArgoWorkflowTemplate))) =>
        /\ pc = "done"
        /\ patches = <<>>
        /\ err = "nil"
        /\ ~LookedUp
        /\ executionHashKey = Text("")
        /\ pod = IncomingPod

\* an argo pod with a template but no pipelines marker is left alone
C11_Witness ==
    /\ pc = "done"
    /\ Decodes
    /\ HasNodeName(IncomingPod)
    /\ ~HasMarker(IncomingPod)
    /\ MapHas(IncomingPod.Annotations, ArgoWorkflowTemplate)
    /\ IncomingTemplate.kind = "object"
    /\ ~IncomingPod.Labels.isNil
    /\ patches = <<>>

\* C12: a remove at /spec/initContainers is returned exactly when the lookup
\* was a hit and the pod declared one or more init containers: never on a
\* miss, never for an absent or empty init-container list, and the list is
\* never the target of a replace.
C12_InitRemoveIffHitAndDeclared ==
    (pc = "done") =>
        /\ \A i \in 1..Len(patches) :
               patches[i].Path = "/spec/initContainers" => patches[i].Op = "remove"
        /\ (Len(OpsAt("/spec/initContainers")) >= 1)
               <=> (Hit /\ Len(IncomingPod.InitContainers.elems) >= 1)

PatchShape == [i \in 1..Len(patches) |-> <<patches[i].Op, patches[i].Path>>]

\* C14: a non-empty returned list is ordered: the /spec/containers replace
\* (hit only), the /spec/initContainers remove (if emitted), the
\* /metadata/annotations add, the /metadata/labels add last; each path at
\* most once; a miss gives exactly [add annotations, add labels].
C14_PatchOrder ==
    (pc = "done" /\ patches # <<>>) =>
        /\ PatchShape \in
              {<<<<"add", AnnotationPath>>, <<"add", LabelPath>>>>,
               <<<<"replace", "/spec/containers">>,
                 <<"add", AnnotationPath>>, <<"add", LabelPath>>>>,
               <<<<"replace", "/spec/containers">>, <<"remove", "/spec/initContainers">>,
                 <<"add", AnnotationPath>>, <<"add", LabelPath>>>>}
        /\ (PatchShape[1][1] = "replace") <=> Hit
        /\ ~Hit => Len(patches) = 2

\* the longest list: replace, remove, add, add
C14_Witness ==
    /\ pc = "done"
    /\ Len(patches) = 4
    /\ Len(IncomingPod.InitContainers.elems) = 1

\* the calls of GetExecutionCache made so far
LookupCalls == SelectSeq(calls, LAMBDA c : c[1] = "GetExecutionCache")

\* C15: one request calls GetExecutionCache at most once, only after the
\* resource check, the decode, the filter, the template check and the key
\* derivation have succeeded, and with the derived fingerprint as the key;
\* the lookup is never retried and the store is never written.
C15_SingleLookupAfterChecks ==
    /\ Len(LookupCalls) <= 1
    /\ \A i \in 1..Len(calls) : calls[i][1] \in {"Decode", "GetExecutionCache"}
    /\ (Len(LookupCalls) = 1) =>
           /\ Decodes
           /\ calls[1] = <<"Decode">>
           /\ calls[2] = LookupCalls[1]
           /\ Eligible(IncomingPod)
           /\ MapHas(IncomingPod.Annotations, ArgoWorkflowTemplate)
           /\ generateCacheKeyFromTemplate(IncomingTemplate).err = "nil"
           /\ LookupCalls[1][2] = generateCacheKeyFromTemplate(IncomingTemplate).key
           /\ LookupCalls[1][2] = executionHashKey
           /\ pc \in {"lookup", "done"}

\* the store answered with an error and the call returned without asking again
C15_Witness ==
    /\ pc = "done"
    /\ lookupErr # "nil"
    /\ cachedExecution.isNil
    /\ Len(LookupCalls) = 1
    /\ Len(patches) = 2

(* ------------------ a cache store that never answers ------------------ *)

\* GetExecutionCache(executionHashKey) is called with no context, deadline or
\* cancellation signal, and MutatePodIfCached has no step other than the
\* store's answer to leave the call: with a store that never answers its only
\* steps are those up to the call
NextHung == MutatePodIfCached

SpecHung == Init /\ [][NextHung]_vars /\ WF_vars(MutatePodIfCached)

\* C16: every request reaches a terminal outcome even when the cache store
\* never answers, the lookup being bounded by a timeout: a request that has
\* not ended can always take a step.
C16_EndsOrCanStep == Ended \/ ENABLED NextHung

(* ----------------------- concurrent requests -------------------------- *)

\* requests handled at the same time
Handlers == 2

\* the locals of one call of MutatePodIfCached
Locals(c, p, ps, e, cs, k, cached, le) ==
    [pc |-> c, pod |-> p, patches |-> ps, err |-> e, calls |-> cs,
     executionHashKey |-> k, cachedExecution |-> cached, lookupErr |-> le]

\* a call that has not started
NotStarted == Locals("start", ZeroPod, <<>>, "nil", <<>>, Text(""), NilExecution, "nil")

\* the locals of a call for request r when it reaches the call of
\* GetExecutionCache, a return before it, or the panic (lines 55-97)
enterMutate(r) ==
    IF resourceMismatch(r)
    THEN Locals("done", ZeroPod, <<>>, "nil", <<>>, Text(""), NilExecution, "nil")
    ELSE LET d == Decode(r.Raw)
         IN IF d.err # "nil"
            THEN Locals("done", ZeroPod, <<>>, "could not deserialize pod object",
                        <<<<"Decode">>>>, Text(""), NilExecution, "nil")
            ELSE IF ~isValidPod(d.pod) \/ ~MapHas(d.pod.Annotations, ArgoWorkflowTemplate)
            THEN Locals("done", d.pod, <<>>, "nil", <<<<"Decode">>>>, Text(""),
                        NilExecution, "nil")
            ELSE LET k == generateCacheKeyFromTemplate(
                              d.pod.Annotations.m[ArgoWorkflowTemplate])
                     annotated == [d.pod EXCEPT !.Annotations = MapSet(@, ExecutionKey, k.key)]
                 IN IF k.err # "nil"
                    THEN Locals("done", d.pod, <<>>, "nil", <<<<"Decode">>>>, k.key,
                                NilExecution, "nil")
                    ELSE IF d.pod.Labels.isNil
                    THEN Locals("panic", annotated, <<>>, "nil", <<<<"Decode">>>>, k.key,
                                NilExecution, "nil")
                    ELSE Locals("lookup",
                                [annotated EXCEPT !.Labels = MapSet(@, CacheIDLabelKey, "")],
                                <<>>, "nil",
                                <<<<"Decode">>, <<"GetExecutionCache", k.key>>>>, k.key,
                                NilExecution, "nil")

RECURSIVE returnedPatches(_, _)

\* the patches the first n calls of hs have returned, in the order of hs
returnedPatches(hs, n) ==
    IF n = 0
    THEN <<>>
    ELSE returnedPatches(hs, n - 1) \o (IF hs[n].pc = "done" THEN hs[n].patches ELSE <<>>)

\* leaveMutate with patches a variable of the package, shared by all calls
leaveMutateSharedPatches(hs, i, cached, e) ==
    LET p == hitPod(cached, hs[i].pod)
    IN Locals("done", p,
              returnedPatches(hs, Len(hs)) \o hitPatches(cached, hs[i].pod)
                  \o <<patchOperation(OperationTypeAdd, AnnotationPath,
                                      "pod.ObjectMeta.Annotations", p.Annotations.m),
                       patchOperation(OperationTypeAdd, LabelPath,
                                      "pod.ObjectMeta.Labels", p.Labels.m)>>,
              "nil", hs[i].calls, hs[i].executionHashKey, cached, e)

\* the locals of the i-th call of hs when GetExecutionCache has returned
\* (cached, e) and the call has run to its end (lines 97-143): var patches,
\* annotations, labels and pod are locals of the call
leaveMutate(hs, i, cached, e) ==
    LET p == hitPod(cached, hs[i].pod)
    IN Locals("done", p,
              hitPatches(cached, hs[i].pod)
                  \o <<patchOperation(OperationTypeAdd, AnnotationPath,
                                      "pod.ObjectMeta.Annotations", p.Annotations.m),
                       patchOperation(OperationTypeAdd, LabelPath,
                                      "pod.ObjectMeta.Labels", p.Labels.m)>>,
              "nil", hs[i].calls, hs[i].executionHashKey, cached, e)

\* a pipelines pod with labels, one init container and template t
ConcPod(t, labels) ==
    [Annotations |-> MapOf([k \in {ArgoWorkflowNodeName, KFPComponentKey,
                                   ArgoWorkflowTemplate} |->
                               IF k = ArgoWorkflowTemplate THEN t ELSE StockValue(k)]),
     Labels |-> labels,
     Containers |-> SliceOf(<<PlainMain, Sidecar>>),
     InitContainers |-> SliceOf(<<InitContainer>>)]

ConcTemplates ==
    {ObjectText(<<<<"archiveLocation", NumberText("1")>>, <<"container", NumberText("1")>>>>),
     ObjectText(<<<<"container", NumberText("1.0")>>, <<"archiveLocation", NumberText("2")>>>>),
     ObjectText(<<<<"container", NumberText("2")>>>>)}

\* the requests handled concurrently: pods that reach the lookup (two of them
\* with one fingerprint), one with no labels, one with a template that is not
\* JSON, an undecodable one and one for another resource
ConcRequests ==
    {[Resource |-> podResource, Raw |-> RawOf(ConcPod(t, MapOf(EmptyFcn)))] : t \in ConcTemplates}
    \cup
    {[Resource |-> podResource,
      Raw |-> RawOf(ConcPod(ObjectText(<<<<"container", NumberText("2")>>>>), NilMap))],
     [Resource |-> podResource, Raw |-> RawOf(ConcPod(Text("not json"), MapOf(EmptyFcn)))],
     [Resource |-> podResource, Raw |-> BadRaw],
     [Resource |-> configmapResource, Raw |-> BadRaw]}

ConcKeys == {generateCacheKeyFromTemplate(t).key : t \in ConcTemplates}

\* what the store holds under a key: nothing (reported as an error), or a record
StoreAnswers ==
    {[cached |-> NilExecution, err |-> "failed to get execution cache"]}
    \cup {[cached |-> x, err |-> "nil"] : x \in {y \in ExecutionRecords : y.ID >= 0}}

\* arg holds the requests and the unchanging store, res the locals of the calls
InitConc ==
    /\ HandlerIdle
    /\ pc = "start"
    /\ arg \in [reqs : [1..Handlers -> ConcRequests], store : [ConcKeys -> StoreAnswers]]
    /\ res = [i \in 1..Handlers |-> NotStarted]

\* call i runs from its entry to the lookup, a return or the panic
ConcEnter(i) ==
    /\ res[i].pc = "start"
    /\ res' = [res EXCEPT ![i] = enterMutate(arg.reqs[i])]
    /\ UNCHANGED <<req, pc, pod, patches, err, calls, executionHashKey, cachedExecution,
                   lookupErr, arg>>

\* the store answers call i from what it holds, and call i runs to its end
ConcReturn(i) ==
    /\ res[i].pc = "lookup"
    /\ LET a == arg.store[res[i].executionHashKey]
       IN res' = [res EXCEPT ![i] = leaveMutate(res, i, a.cached, a.err)]
    /\ UNCHANGED <<req, pc, pod, patches, err, calls, executionHashKey, cachedExecution,
                   lookupErr, arg>>

NextConc == \E i \in 1..Handlers : ConcEnter(i) \/ ConcReturn(i)

SpecConc == InitConc /\ [][NextConc]_vars

\* request r handled alone over store st
RunAlone(r, st) ==
    LET h == enterMutate(r)
    IN IF h.pc = "lookup"
       THEN leaveMutate(<<h>>, 1, st[h.executionHashKey].cached, st[h.executionHashKey].err)
       ELSE h

\* C17: requests are independent and idempotent: in every interleaving over an
\* unchanged store each request ends as it does when handled alone (patch
\* list, error, fingerprint, lookup key), and a request handled twice ends
\* the same way both times.
C17_IndependentAndIdempotent ==
    /\ \A i \in 1..Handlers :
           (res[i].pc \in {"done", "panic"}) => (res[i] = RunAlone(arg.reqs[i], arg.store))
    /\ \A i, j \in 1..Handlers :
           (arg.reqs[i] = arg.reqs[j] /\ res[i].pc = "done" /\ res[j].pc = "done") =>
               /\ res[i].patches = res[j].patches
               /\ res[i].err = res[j].err
               /\ res[i].executionHashKey = res[j].executionHashKey
               /\ res[i].calls = res[j].calls

\* two different requests with one fingerprint, both answered with a hit, the
\* second entered while the first was in its lookup
C17_Witness ==
    /\ res[1].pc = "done"
    /\ res[2].pc = "done"
    /\ arg.reqs[1] # arg.reqs[2]
    /\ res[1].executionHashKey = res[2].executionHashKey
    /\ ~res[1].cachedExecution.isNil
    /\ Len(res[1].patches) = 4
    /\ Len(res[2].patches) = 4

====
